---- MODULE Spec2Model ----
(***************************************************************************)
(* State-machine model of SoberLauncher (src/SoberLauncher.py): the        *)
(* profile -> process mapping, the set of launched profiles, the          *)
(* multi-instance guard, the 2 s poll tick, profile creation/removal and  *)
(* the background copy thread.  One action per handler; the operating     *)
(* system (process exit) is a separate environment action.                *)
(***************************************************************************)
EXTENDS Integers, Sequences, FiniteSets, TLC

VARIABLES
    allow_multi_instance,   \* self.allow_multi_instance
    processes,              \* self.processes: profile name -> Popen handle (a pid)
    launched_profiles,      \* self.launched_profiles (a Python set)
    launch_order,           \* the members of launched_profiles, oldest insertion first
    selected_profiles,      \* self.selected_profiles (sequence, selection order)
    profileList,            \* items of self.profileList (sequence)
    profile_dirs,           \* directories under base_dir that hold a .local folder
    owner,                  \* every Popen made so far: pid -> profile it was started for
    running,                \* pids whose poll() is None (process not exited)
    missingLabel,           \* profiles listed by missingInstancesLabel, in order
    ui_enabled,             \* QWidget.isEnabled() of the main window
    copy_thread,            \* position of the CopyProfileThread
    last                    \* the handler that ran last and what it decided

vars == <<allow_multi_instance, processes, launched_profiles, launch_order,
          selected_profiles, profileList, profile_dirs, owner, running,
          missingLabel, ui_enabled, copy_thread, last>>

-----------------------------------------------------------------------------
(* Bounds *)

NumProfiles == 1        \* profiles besides "Main Profile"
MaxSpawns == 2          \* Popen calls in one behaviour
MaxRequested == 3       \* largest requested_count handed to the guard alone
MaxDirs == 3            \* directories os.scandir returns to scanForProfiles alone

-----------------------------------------------------------------------------
(* Names *)

MainProfile == "Main Profile"

ProfileNames == <<"Profile 1", "Profile 2", "Profile 10">>

OtherProfiles == {ProfileNames[i] : i \in 1..NumProfiles}

Profiles == {MainProfile} \cup OtherProfiles

\* runParameter starts the application for no profile of the list
NoProfile == "<parameter>"

ProbeOutcomes == {"match", "nomatch", "error"}

Probes == [1..3 -> ProbeOutcomes]

NoProbes == [i \in 1..3 |-> "nomatch"]

\* the probe runs a handler is tried with: nothing found, every probe failing,
\* found by the first probe, found by the last one after two failures
ProbeRuns == {NoProbes,
              [i \in 1..3 |-> "error"],
              [i \in 1..3 |-> IF i = 1 THEN "match" ELSE "nomatch"],
              [i \in 1..3 |-> IF i = 3 THEN "match" ELSE "error"]}

\* the guard runs the probes only when multi instancing is off
ProbeInputs(allow) == IF allow THEN {NoProbes} ELSE ProbeRuns

Terminals == {"konsole", "none"}

\* sequences without repetition over a set of profiles (a list selection)
RECURSIVE Arrangements(_)
Arrangements(S) ==
    IF S = {} THEN {<<>>}
    ELSE LET shorter == UNION {Arrangements(S \ {x}) : x \in S}
         IN  shorter \cup UNION {{<<x>> \o t : t \in Arrangements(S \ {x})} : x \in S}

Range(s) == {s[i] : i \in 1..Len(s)}

EmptyMap == [x \in {} |-> 0]

Put(f, k, v) == [x \in (DOMAIN f) \cup {k} |-> IF x = k THEN v ELSE f[x]]

Drop(f, k) == [x \in (DOMAIN f) \ {k} |-> f[x]]

\* the maps as a handler finds them when it starts
NoSnapshot == [processes |-> EmptyMap, launched_profiles |-> {}, owner |-> <<>>,
               running |-> {}, profileList |-> <<>>, profile_dirs |-> {},
               allow_multi_instance |-> FALSE, ui_enabled |-> TRUE,
               copy_thread |-> "idle"]

Snapshot == [processes |-> processes, launched_profiles |-> launched_profiles,
             owner |-> owner, running |-> running,
             profileList |-> profileList, profile_dirs |-> profile_dirs,
             allow_multi_instance |-> allow_multi_instance,
             ui_enabled |-> ui_enabled, copy_thread |-> copy_thread]

Idle == [op |-> "idle", guard |-> "none", requested |-> 0, probes |-> NoProbes,
         detected |-> FALSE, tried |-> 0, spawned |-> {}, skipped |-> {},
         raised |-> FALSE, arg |-> MainProfile, missing |-> <<>>, url |-> <<>>,
         link |-> <<>>, entries |-> <<>>, commands |-> <<>>, homes |-> <<>>,
         before |-> NoSnapshot]

Did(name) == [Idle EXCEPT !.op = name, !.before = Snapshot]

\* no handler is running: control is in the Qt event loop
AtEventLoop == last = Idle

-----------------------------------------------------------------------------
(* Pure functions of the program *)

\* faulty variant: only flatpak ps is asked
sober_running_first_probe_only(probes) == probes[1] = "match"

\* system_sober_running: three probes in order, first match wins; a probe that
\* raises or exits non-zero is passed over (except Exception: pass)
system_sober_running(probes) ==
    IF probes[1] = "match" THEN TRUE
    ELSE IF probes[2] = "match" THEN TRUE
    ELSE IF probes[3] = "match" THEN TRUE
    ELSE FALSE

\* how many of the three subprocess.run calls system_sober_running makes
ProbesTried(probes) ==
    IF probes[1] = "match" THEN 1
    ELSE IF probes[2] = "match" THEN 2
    ELSE 3

\* faulty variant: the guard forgets to ask system_sober_running()
guard_without_probe(allow, requested_count, probes) ==
    IF ~allow
    THEN IF requested_count > 1 THEN FALSE ELSE TRUE
    ELSE TRUE

\* _guard_multi_instance(requested_count)
guard_multi_instance(allow, requested_count, probes) ==
    IF ~allow
    THEN IF requested_count > 1 THEN FALSE
         ELSE IF system_sober_running(probes) THEN FALSE
         ELSE TRUE
    ELSE TRUE

\* requested = len(self.selected_profiles) if self.allow_multi_instance else 1
Requested(allow, selected) == IF allow THEN Len(selected) ELSE 1

\* faulty variant: every selected profile is a target whatever the flag
TargetsAllSelected(allow, selected) == selected

\* faulty variant: with the flag off the last selected profile is taken
TargetsLastSelected(allow, selected) ==
    IF allow \/ selected = <<>> THEN selected ELSE <<selected[Len(selected)]>>

\* targets = self.selected_profiles if self.allow_multi_instance else [self.selected_profiles[0]]
Targets(allow, selected) == IF allow THEN selected ELSE <<selected[1]>>

\* faulty variant: every launched profile counts as missing
MissingAllLaunched(launched, procs) == launched

\* missing = [p for p in self.launched_profiles if p not in running]
Missing(launched, procs) == {p \in launched : p \notin DOMAIN procs}

\* the orders in which Python may iterate over the set of missing profiles:
\* launched_profiles is a set, iterated in hash order
MissingOrders(launched, procs) ==
    {t \in Arrangements(Missing(launched, procs)) :
        Len(t) = Cardinality(Missing(launched, procs))}

\* updateMissingInstancesLabel: returns early when multi instancing is off;
\* the texts ", ".join(missing) may then show
updateMissingInstancesLabel(allow, launched, procs, label) ==
    IF ~allow THEN {label} ELSE MissingOrders(launched, procs)

\* rank of a name under natural_sort_key, for the names of ProfileNames
NaturalRank(name) ==
    IF name = MainProfile THEN 0
    ELSE CHOOSE i \in 1..Len(ProfileNames) : ProfileNames[i] = name

RECURSIVE SortByRank(_)
SortByRank(S) ==
    IF S = {} THEN <<>>
    ELSE LET m == CHOOSE x \in S : \A y \in S : NaturalRank(x) <= NaturalRank(y)
         IN  <<m>> \o SortByRank(S \ {m})

\* scanForProfiles: sorted directory names, "Main Profile" forced to the front once
ScanList(dirs) == <<MainProfile>> \o SortByRank(dirs \ {MainProfile})

-----------------------------------------------------------------------------
(* The launch loop shared by launchGame, runWithConsole and runSpecificGame *)

LoopStart == [processes |-> processes, launched_profiles |-> launched_profiles,
              launch_order |-> launch_order, owner |-> owner, running |-> running,
              spawned |-> {}, skipped |-> {}, raised |-> FALSE, failed |-> NoProfile]

\* faulty variant: every launch is appended, as list.append would do
RecordLaunchAlways(order, profile) == Append(order, profile)

\* what self.launched_profiles.add(profile) does to the order of insertion:
\* adding a member again changes nothing
RecordLaunch(order, profile) ==
    IF profile \in Range(order) THEN order ELSE Append(order, profile)

\* what discard(profile) does to it
RecordRemoval(order, profile) == SelectSeq(order, LAMBDA x : x # profile)

\* faulty variant: the profile is recorded as launched before Popen raises
PopenRaisesAfterRecord(st, profile) ==
    [st EXCEPT !.raised = TRUE, !.failed = profile,
               !.launched_profiles = @ \cup {profile},
               !.launch_order = RecordLaunch(@, profile)]

\* subprocess.Popen raises: the two statements after it are not reached
PopenRaises(st, profile) == [st EXCEPT !.raised = TRUE, !.failed = profile]

\* faulty variant: the launch is not added to self.launched_profiles
SpawnTrackedNotRecorded(st, profile) ==
    LET pid == Len(st.owner) + 1
    IN  [st EXCEPT !.processes = Put(@, profile, pid),
                   !.owner = Append(@, profile),
                   !.running = @ \cup {pid},
                   !.spawned = @ \cup {profile}]

\* faulty variant: the Popen handle is not stored in self.processes
SpawnTrackedNoHandle(st, profile) ==
    LET pid == Len(st.owner) + 1
    IN  [st EXCEPT !.launched_profiles = @ \cup {profile},
                   !.launch_order = RecordLaunch(@, profile),
                   !.owner = Append(@, profile),
                   !.running = @ \cup {pid},
                   !.spawned = @ \cup {profile}]

\* proc = subprocess.Popen(...); self.processes[profile] = proc;
\* self.launched_profiles.add(profile)
SpawnTracked(st, profile) ==
    LET pid == Len(st.owner) + 1
    IN  [st EXCEPT !.processes = Put(@, profile, pid),
                   !.launched_profiles = @ \cup {profile},
                   !.launch_order = RecordLaunch(@, profile),
                   !.owner = Append(@, profile),
                   !.running = @ \cup {pid},
                   !.spawned = @ \cup {profile}]

\* faulty variant: the test reads poll() is not None
HandleAlivePollInverted(procs, run, profile) ==
    profile \in DOMAIN procs /\ procs[profile] \notin run

\* if profile in self.processes and self.processes[profile].poll() is None
HandleAlive(procs, run, profile) ==
    profile \in DOMAIN procs /\ procs[profile] \in run

\* failAt = n: the n-th Popen of this loop raises (0: none raises)
RECURSIVE LaunchLoop(_, _, _)
LaunchLoop(st, targets, failAt) ==
    IF targets = <<>> THEN st
    ELSE LET profile == Head(targets)
         IN  IF HandleAlive(st.processes, st.running, profile)
             THEN LaunchLoop([st EXCEPT !.skipped = @ \cup {profile}],
                             Tail(targets), failAt)
             ELSE IF failAt = 1
             THEN PopenRaises(st, profile)
             ELSE LaunchLoop(SpawnTracked(st, profile), Tail(targets),
                             IF failAt = 0 THEN 0 ELSE failAt - 1)

-----------------------------------------------------------------------------
(* Deep links: url.strip() and re.search(r"games/(\d+)", url) *)

DigitChars == {"0", "1", "2", "3", "4", "5", "6", "7", "8", "9"}

GamesPrefix == <<"g", "a", "m", "e", "s", "/">>

UrlGame == <<"s", "/", "g", "a", "m", "e", "s", "/", "1", "2", "/", "N">>

UrlNoGame == <<"s", "/", "n", "o", "g", "a", "m", "e">>

UrlBlank == <<" ">>

UrlTwoGames == <<" ", "g", "a", "m", "e", "s", "/", "7", "/",
                 "g", "a", "m", "e", "s", "/", "8", " ">>

Urls == {UrlGame, UrlNoGame, UrlBlank, UrlTwoGames}

\* the input dialog closed without OK
Cancelled == <<"<cancel>">>

RECURSIVE Strip(_)
Strip(url) ==
    IF url = <<>> THEN url
    ELSE IF Head(url) = " " THEN Strip(Tail(url))
    ELSE IF url[Len(url)] = " " THEN Strip(SubSeq(url, 1, Len(url) - 1))
    ELSE url

\* the digit run that starts at position i (empty when url[i] is no digit)
RECURSIVE DigitRun(_, _)
DigitRun(url, i) ==
    IF i > Len(url) \/ url[i] \notin DigitChars THEN <<>>
    ELSE <<url[i]>> \o DigitRun(url, i + 1)

MatchesAt(url, i) ==
    /\ i + Len(GamesPrefix) <= Len(url)
    /\ SubSeq(url, i, i + Len(GamesPrefix) - 1) = GamesPrefix
    /\ url[i + Len(GamesPrefix)] \in DigitChars

\* faulty variant: the last match is taken instead of the leftmost one
SearchGamesLast(url) ==
    IF \E i \in 1..Len(url) : MatchesAt(url, i)
    THEN LET i == CHOOSE j \in 1..Len(url) :
                      MatchesAt(url, j) /\ \A k \in (j + 1)..Len(url) : ~MatchesAt(url, k)
         IN  DigitRun(url, i + Len(GamesPrefix))
    ELSE <<>>

\* match.group(1) of the leftmost match, <<>> when re.search returns None
SearchGames(url) ==
    IF \E i \in 1..Len(url) : MatchesAt(url, i)
    THEN LET i == CHOOSE j \in 1..Len(url) :
                      MatchesAt(url, j) /\ \A k \in 1..(j - 1) : ~MatchesAt(url, k)
         IN  DigitRun(url, i + Len(GamesPrefix))
    ELSE <<>>

\* roblox_command = f'roblox://experience?placeId={place_id}'
roblox_command(place_id) == <<"roblox://experience?placeId=">> \o place_id

-----------------------------------------------------------------------------
Init ==
    /\ allow_multi_instance \in BOOLEAN      \* loadSettings: AllowMultiInstance
    /\ processes = EmptyMap
    /\ launched_profiles = {}
    /\ launch_order = <<>>
    /\ selected_profiles = <<>>
    /\ profile_dirs \in SUBSET OtherProfiles \* what is on disk at start-up
    /\ profileList = ScanList(profile_dirs)
    /\ owner = <<>>
    /\ running = {}
    /\ missingLabel = <<>>
    /\ ui_enabled = TRUE
    /\ copy_thread = "idle"
    /\ last = Idle

-----------------------------------------------------------------------------
(* Launch handlers *)

Frame == UNCHANGED <<allow_multi_instance, selected_profiles, profileList,
                     profile_dirs, ui_enabled, copy_thread>>

Quiet == UNCHANGED <<processes, launched_profiles, launch_order, owner, running,
                     missingLabel>>

\* the guard as the handlers call it; the probes only run when the flag is off
\* and requested_count <= 1
GuardCall(name, requested, probes) ==
    [Did(name) EXCEPT
        !.requested = requested,
        !.detected = ~allow_multi_instance /\ requested <= 1
                        /\ system_sober_running(probes),
        !.guard = IF guard_multi_instance(allow_multi_instance, requested, probes)
                  THEN "pass" ELSE "reject"]

\* which Popen of the loop raises: none, or any of those the targets allow
FailPoints == 0..Len(Targets(allow_multi_instance, selected_profiles))

\* for profile in targets: ... ; self.updateMissingInstancesLabel()
\* (a raising Popen leaves the handler before the label is updated)
RunLoop(g, failAt) ==
    LET targets == Targets(allow_multi_instance, selected_profiles)
        st == LaunchLoop(LoopStart, targets, failAt)
    IN  /\ Len(owner) + Len(targets) <= MaxSpawns
        /\ failAt <= Len(targets)
        /\ failAt > 0 => st.raised
        /\ processes' = st.processes
        /\ launched_profiles' = st.launched_profiles
        /\ launch_order' = st.launch_order
        /\ owner' = st.owner
        /\ running' = st.running
        /\ missingLabel' \in IF st.raised THEN {missingLabel}
                           ELSE updateMissingInstancesLabel(allow_multi_instance,
                                    st.launched_profiles, st.processes, missingLabel)
        /\ last' = [g EXCEPT !.spawned = st.spawned, !.skipped = st.skipped,
                             !.raised = st.raised,
                             !.arg = IF st.raised THEN st.failed ELSE g.arg]

launchGame ==
    /\ AtEventLoop
    /\ ui_enabled
    /\ Frame
    /\ IF selected_profiles = <<>>
       THEN last' = Did("launchGame") /\ Quiet
       ELSE \E probes \in ProbeInputs(allow_multi_instance) :
              LET g == GuardCall("launchGame",
                          Requested(allow_multi_instance, selected_profiles), probes)
              IN  IF g.guard = "reject"
                  THEN last' = g /\ Quiet
                  ELSE \E failAt \in FailPoints : RunLoop(g, failAt)

runWithConsole ==
    /\ AtEventLoop
    /\ ui_enabled
    /\ Frame
    /\ IF selected_profiles = <<>>
       THEN last' = Did("runWithConsole") /\ Quiet
       ELSE \E probes \in ProbeInputs(allow_multi_instance) :
              LET g == GuardCall("runWithConsole",
                          Requested(allow_multi_instance, selected_profiles), probes)
              IN  IF g.guard = "reject"
                  THEN last' = g /\ Quiet
                  ELSE \E terminal \in Terminals :
                         IF terminal = "none"
                         THEN last' = [g EXCEPT !.arg = "no terminal"] /\ Quiet
                         ELSE \E failAt \in FailPoints : RunLoop(g, failAt)

runSpecificGame ==
    /\ AtEventLoop
    /\ ui_enabled
    /\ Frame
    /\ IF selected_profiles = <<>>
       THEN last' = Did("runSpecificGame") /\ Quiet
       ELSE \E probes \in ProbeInputs(allow_multi_instance) :
              LET g == GuardCall("runSpecificGame",
                          Requested(allow_multi_instance, selected_profiles), probes)
              IN  IF g.guard = "reject"
                  THEN last' = g /\ Quiet
                  ELSE \E url \in Urls \cup {Cancelled} :
                         IF url = Cancelled \/ Strip(url) = <<>>
                         THEN last' = [g EXCEPT !.arg = "no link"] /\ Quiet
                         ELSE IF SearchGames(Strip(url)) = <<>>
                         THEN last' = [g EXCEPT !.arg = "invalid link", !.url = url]
                              /\ Quiet
                         ELSE \E failAt \in FailPoints :
                                RunLoop([g EXCEPT !.url = url,
                                           !.link = roblox_command(
                                                       SearchGames(Strip(url)))],
                                        failAt)

launchMainProfile ==
    /\ AtEventLoop
    /\ ui_enabled
    /\ Frame
    /\ \E probes \in ProbeInputs(allow_multi_instance), fails \in BOOLEAN :
         LET g == GuardCall("launchMainProfile", 1, probes)
         IN  IF g.guard = "reject"
             THEN last' = g /\ Quiet
             ELSE IF allow_multi_instance
                     /\ HandleAlive(processes, running, MainProfile)
             THEN last' = [g EXCEPT !.skipped = {MainProfile}] /\ Quiet
             ELSE IF fails
             THEN LET st == PopenRaises(LoopStart, MainProfile)
                  IN  /\ last' = [g EXCEPT !.raised = st.raised, !.arg = st.failed]
                      /\ launched_profiles' = st.launched_profiles
                      /\ launch_order' = st.launch_order
                      /\ UNCHANGED <<processes, owner, running, missingLabel>>
             ELSE LET st == SpawnTracked(LoopStart, MainProfile)
                  IN  /\ Len(owner) < MaxSpawns
                      /\ processes' = st.processes
                      /\ launched_profiles' = st.launched_profiles
                      /\ launch_order' = st.launch_order
                      /\ owner' = st.owner
                      /\ running' = st.running
                      /\ missingLabel' \in updateMissingInstancesLabel(
                             allow_multi_instance, st.launched_profiles,
                             st.processes, missingLabel)
                      /\ last' = [g EXCEPT !.spawned = {MainProfile}]

-----------------------------------------------------------------------------
(* Recovery of missing instances *)

\* for profile in missing: Popen, self.processes[profile] = proc, add (no poll)
RECURSIVE RelaunchLoop(_, _, _)
RelaunchLoop(st, targets, failAt) ==
    IF targets = <<>> THEN st
    ELSE IF failAt = 1 THEN PopenRaises(st, Head(targets))
    ELSE RelaunchLoop(SpawnTracked(st, Head(targets)), Tail(targets),
                      IF failAt = 0 THEN 0 ELSE failAt - 1)

RunMissing(r, failAt) ==
    \E targets \in MissingOrders(launched_profiles, processes) :
      LET st == RelaunchLoop(LoopStart, targets, failAt)
      IN  /\ Len(owner) + Len(targets) <= MaxSpawns
          /\ failAt <= Len(targets)
          /\ processes' = st.processes
          /\ launched_profiles' = st.launched_profiles
          /\ launch_order' = st.launch_order
          /\ owner' = st.owner
          /\ running' = st.running
          /\ missingLabel' \in IF st.raised THEN {missingLabel}
                             ELSE updateMissingInstancesLabel(allow_multi_instance,
                                      st.launched_profiles, st.processes, missingLabel)
          /\ last' = [r EXCEPT !.spawned = st.spawned, !.raised = st.raised,
                          !.missing = targets,
                          !.arg = IF st.raised THEN st.failed ELSE MainProfile]

\* faulty variant: the recovery handlers do not look at the flag
RecoveryDisabledNever(allow) == FALSE

\* if not self.allow_multi_instance: information box, return
RecoveryDisabled(allow) == ~allow

runMissingInstances ==
    /\ AtEventLoop
    /\ ui_enabled
    /\ Frame
    /\ IF RecoveryDisabled(allow_multi_instance)
       THEN last' = [Did("runMissingInstances") EXCEPT !.arg = "disabled"] /\ Quiet
       ELSE IF Missing(launched_profiles, processes) = {}
       THEN last' = Did("runMissingInstances") /\ Quiet
       ELSE \E failAt \in 0..Cardinality(Missing(launched_profiles, processes)) :
              RunMissing(Did("runMissingInstances"), failAt)

runMissingInstancesWithLink ==
    /\ AtEventLoop
    /\ ui_enabled
    /\ Frame
    /\ IF RecoveryDisabled(allow_multi_instance)
       THEN last' = [Did("runMissingInstancesWithLink") EXCEPT !.arg = "disabled"] /\ Quiet
       ELSE IF Missing(launched_profiles, processes) = {}
       THEN last' = Did("runMissingInstancesWithLink") /\ Quiet
       ELSE \E url \in Urls \cup {Cancelled} :
              IF url = Cancelled \/ Strip(url) = <<>>
              THEN last' = [Did("runMissingInstancesWithLink") EXCEPT
                               !.arg = "no link"] /\ Quiet
              ELSE IF SearchGames(Strip(url)) = <<>>
              THEN last' = [Did("runMissingInstancesWithLink") EXCEPT
                               !.arg = "invalid link", !.url = url] /\ Quiet
              ELSE \E failAt \in 0..Cardinality(Missing(launched_profiles, processes)) :
                     RunMissing([Did("runMissingInstancesWithLink") EXCEPT
                                    !.url = url,
                                    !.link = roblox_command(SearchGames(Strip(url)))],
                                failAt)

\* runParameter (private server buttons) and quickLaunch: Popen, nothing recorded
runParameter ==
    /\ AtEventLoop
    /\ ui_enabled
    /\ Frame
    /\ UNCHANGED <<processes, launched_profiles, launch_order, missingLabel>>
    /\ \E fails \in BOOLEAN :
         IF fails
         THEN /\ last' = [Did("runParameter") EXCEPT !.raised = TRUE,
                                                     !.arg = NoProfile]
              /\ UNCHANGED <<owner, running>>
         ELSE /\ Len(owner) < MaxSpawns
              /\ owner' = Append(owner, NoProfile)
              /\ running' = running \cup {Len(owner) + 1}
              /\ last' = [Did("runParameter") EXCEPT !.spawned = {NoProfile}]

-----------------------------------------------------------------------------
(* Poll tick, exit all, settings *)

\* faulty variant: the tick collects the handles whose poll() is None
ClosedStillRunning(procs, run) == {p \in DOMAIN procs : procs[p] \in run}

\* faulty variant: the tick finds no handle closed
ClosedNone(procs, run) == {}

\* faulty variant: the tick drops every handle
ClosedAll(procs, run) == DOMAIN procs

\* closed = [p for p, proc in self.processes.items() if proc.poll() is not None]
Closed(procs, run) == {p \in DOMAIN procs : procs[p] \notin run}

checkProcesses ==
    /\ AtEventLoop
    /\ processes' = [p \in (DOMAIN processes) \ Closed(processes, running)
                        |-> processes[p]]
    /\ missingLabel' \in updateMissingInstancesLabel(allow_multi_instance,
                           launched_profiles, processes', missingLabel)
    /\ last' = Did("checkProcesses")
    /\ Frame
    /\ UNCHANGED <<launched_profiles, launch_order, owner, running>>

\* flatpak kill is best effort: the processes it reaches exit, the others stay
exitAllSessions ==
    /\ AtEventLoop
    /\ ui_enabled
    /\ Frame
    /\ \E yes \in BOOLEAN, killed \in BOOLEAN :
         IF ~yes
         THEN /\ last' = [Did("exitAllSessions") EXCEPT !.arg = "declined"]
              /\ Quiet
         ELSE /\ running' = IF killed THEN {} ELSE running
              /\ launched_profiles' = {}
              /\ launch_order' = <<>>
              /\ missingLabel' \in updateMissingInstancesLabel(allow_multi_instance,
                                     {}, processes, missingLabel)
              /\ last' = Did("exitAllSessions")
              /\ UNCHANGED <<processes, owner>>

\* faulty variant: switching the flag off forgets the handles and the launched set
onMultiToggleChangedForgets ==
    /\ AtEventLoop
    /\ ui_enabled
    /\ LET state == ~allow_multi_instance
       IN  /\ allow_multi_instance' = state
           /\ processes' = IF state THEN processes ELSE EmptyMap
           /\ launched_profiles' = IF state THEN launched_profiles ELSE {}
           /\ launch_order' = IF state THEN launch_order ELSE <<>>
           /\ missingLabel' \in IF state
                                THEN MissingOrders(launched_profiles, processes)
                                ELSE {<<>>}
    /\ last' = Did("onMultiToggleChanged")
    /\ UNCHANGED <<selected_profiles, profileList, profile_dirs, owner, running,
                   ui_enabled, copy_thread>>

\* applyMultiInstanceUIState: label recomputed when on, reset to "None" when off
onMultiToggleChanged ==
    /\ AtEventLoop
    /\ ui_enabled
    /\ LET state == ~allow_multi_instance     \* stateChanged: the box was flipped
       IN  /\ allow_multi_instance' = state
           /\ missingLabel' \in IF state
                                THEN MissingOrders(launched_profiles, processes)
                                ELSE {<<>>}
    /\ last' = Did("onMultiToggleChanged")
    /\ UNCHANGED <<processes, launched_profiles, launch_order, selected_profiles, profileList,
                   profile_dirs, owner, running, ui_enabled, copy_thread>>

\* the operating system: a started process exits on its own
ProcessExit ==
    /\ AtEventLoop
    /\ \E pid \in running : running' = running \ {pid}
    /\ last' = Did("exit")
    /\ Frame
    /\ UNCHANGED <<processes, launched_profiles, launch_order, owner, missingLabel>>

-----------------------------------------------------------------------------
(* Catalog: selection, refresh, create, remove, background copy *)

\* itemSelectionChanged -> updateSelectedProfiles
updateSelectedProfiles ==
    /\ AtEventLoop
    /\ ui_enabled
    /\ \E sel \in Arrangements(Range(profileList)) :
         /\ sel # selected_profiles
         /\ selected_profiles' = sel
    /\ last' = Did("updateSelectedProfiles")
    /\ UNCHANGED <<allow_multi_instance, processes, launched_profiles, launch_order, profileList,
                   profile_dirs, owner, running, missingLabel, ui_enabled, copy_thread>>

\* scanForProfiles: the list is cleared (which empties the selection) and refilled,
\* then updateMissingInstancesLabel(profiles)
Scan(dirs, launched, procs) ==
    /\ profileList' = ScanList(dirs)
    /\ selected_profiles' = <<>>
    /\ missingLabel' \in updateMissingInstancesLabel(allow_multi_instance, launched,
                                                   procs, missingLabel)

\* faulty variant: the refresh drops what it no longer finds on disk from
\* self.processes and launched_profiles
scanForProfilesPrunes ==
    /\ AtEventLoop
    /\ ui_enabled
    /\ LET found == {MainProfile} \cup profile_dirs
       IN  /\ processes' = [p \in (DOMAIN processes) \cap found |-> processes[p]]
           /\ launched_profiles' = launched_profiles \cap found
           /\ launch_order' = SelectSeq(launch_order, LAMBDA p : p \in found)
           /\ Scan(profile_dirs, launched_profiles', processes')
    /\ last' = Did("scanForProfiles")
    /\ UNCHANGED <<allow_multi_instance, profile_dirs, owner, running, ui_enabled,
                   copy_thread>>

\* the refresh button and openBaseDirectory
scanForProfiles ==
    /\ AtEventLoop
    /\ ui_enabled
    /\ Scan(profile_dirs, launched_profiles, processes)
    /\ last' = Did("scanForProfiles")
    /\ UNCHANGED <<allow_multi_instance, processes, launched_profiles, launch_order, profile_dirs,
                   owner, running, ui_enabled, copy_thread>>

\* faulty variant: the window stays enabled while the copy runs
setEnabledOmitted == TRUE

\* self.setEnabled(False) before the thread is started
setEnabledForCopy == FALSE

createProfile ==
    /\ AtEventLoop
    /\ ui_enabled
    /\ UNCHANGED <<allow_multi_instance, processes, launched_profiles, launch_order, owner, running>>
    /\ \/ \* dialog cancelled, empty name, or os.makedirs raising
          /\ \E raised \in BOOLEAN : last' = [Did("createProfile") EXCEPT !.raised = raised]
          /\ UNCHANGED <<profile_dirs, profileList, selected_profiles,
                         missingLabel, ui_enabled, copy_thread>>
       \/ \E profile_name \in OtherProfiles, copy_main \in BOOLEAN :
            /\ profile_dirs' = profile_dirs \cup {profile_name}
            /\ last' = [Did("createProfile") EXCEPT !.arg = profile_name]
            /\ IF copy_main
               THEN /\ ui_enabled' = setEnabledForCopy
                    /\ copy_thread' = "running"
                    /\ UNCHANGED <<profileList, selected_profiles, missingLabel>>
               ELSE /\ Scan(profile_dirs', launched_profiles, processes)
                    /\ UNCHANGED <<ui_enabled, copy_thread>>

\* faulty variant: done is emitted whether the copy succeeded or not
RunOutcomeAlwaysDone(copied) == "done"

\* try: ...copytree...; self.done.emit(dst)  except Exception: self.failed.emit(str(e))
RunOutcome(copied) == IF copied THEN "done" ELSE "failed"

\* CopyProfileThread.run: emits done or failed, never touches the launcher's maps
CopyProfileThreadRun ==
    /\ AtEventLoop
    /\ copy_thread = "running"
    /\ \E copied \in BOOLEAN :
         /\ copy_thread' = RunOutcome(copied)
         /\ last' = [Did("CopyProfileThread.run") EXCEPT !.raised = ~copied]
    /\ UNCHANGED <<allow_multi_instance, processes, launched_profiles, launch_order,
                   selected_profiles, profileList, profile_dirs, owner, running,
                   missingLabel, ui_enabled>>

\* faulty variant: the refresh does not wait for the thread's signal
DoneSignalledEarly(thread) == thread \in {"running", "done"}

\* the slot connected to copy_thread.done runs once done has been emitted
DoneSignalled(thread) == thread = "done"

onProfileCopyDone ==
    /\ AtEventLoop
    /\ DoneSignalled(copy_thread)
    /\ copy_thread' = "finished"
    /\ Scan(profile_dirs, launched_profiles, processes)
    /\ last' = Did("_onProfileCopyDone")
    /\ UNCHANGED <<allow_multi_instance, processes, launched_profiles, launch_order, profile_dirs,
                   owner, running, ui_enabled>>

onProfileCopyFailed ==
    /\ AtEventLoop
    /\ copy_thread = "failed"
    /\ copy_thread' = "finished"
    /\ last' = Did("_onProfileCopyFailed")
    /\ UNCHANGED <<allow_multi_instance, processes, launched_profiles, launch_order,
                   selected_profiles, profileList, profile_dirs, owner, running,
                   missingLabel, ui_enabled>>

\* copy_thread.finished -> self.setEnabled(True)
onCopyThreadFinished ==
    /\ AtEventLoop
    /\ copy_thread = "finished"
    /\ copy_thread' = "idle"
    /\ ui_enabled' = TRUE
    /\ last' = Did("finished")
    /\ UNCHANGED <<allow_multi_instance, processes, launched_profiles, launch_order,
                   selected_profiles, profileList, profile_dirs, owner, running,
                   missingLabel>>

\* faulty variant: no profile is protected and the folder is not looked for
RemovalRefusedNever(profile, dirs) == FALSE

\* if profile == "Main Profile": return; if not os.path.isdir(profile_path): return
RemovalRefused(profile, dirs) == profile = MainProfile \/ profile \notin dirs

\* faulty variant: the bookkeeping is cleaned whether rmtree raised or not
CleanupReachedAlways(rmtree_raised) == TRUE

\* the clean-up follows shutil.rmtree inside the same try block
CleanupReached(rmtree_raised) == ~rmtree_raised

\* terminate() is best effort; pop, discard, scanForProfiles
RemovalCleanup(profile) ==
    /\ \E stopped \in BOOLEAN :
         running' = IF HandleAlive(processes, running, profile) /\ stopped
                    THEN running \ {processes[profile]} ELSE running
    /\ processes' = Drop(processes, profile)
    /\ launched_profiles' = launched_profiles \ {profile}
    /\ launch_order' = RecordRemoval(launch_order, profile)
    /\ Scan(profile_dirs', launched_profiles', processes')

\* removeProfile(profile), from the context menu of a list item
removeProfile ==
    /\ AtEventLoop
    /\ ui_enabled
    /\ UNCHANGED <<allow_multi_instance, owner, ui_enabled, copy_thread>>
    /\ \E profile \in Range(profileList) :
         LET r == [Did("removeProfile") EXCEPT !.arg = profile]
         IN  IF RemovalRefused(profile, profile_dirs)
             THEN \* protected, or os.path.isdir(profile_path) is false
                  /\ last' = [r EXCEPT !.guard = "reject"]
                  /\ Quiet /\ UNCHANGED <<profile_dirs, profileList, selected_profiles>>
             ELSE \/ \* the question is answered No
                     /\ last' = [r EXCEPT !.guard = "declined"]
                     /\ Quiet
                     /\ UNCHANGED <<profile_dirs, profileList, selected_profiles>>
                  \/ \* shutil.rmtree raises, with the folder gone in part or not
                     /\ last' = [r EXCEPT !.raised = TRUE]
                     /\ \E partly \in BOOLEAN :
                          profile_dirs' = IF partly THEN profile_dirs \ {profile}
                                          ELSE profile_dirs
                     /\ IF CleanupReached(TRUE)
                        THEN RemovalCleanup(profile)
                        ELSE Quiet /\ UNCHANGED <<profileList, selected_profiles>>
                  \/ \* removed
                     /\ last' = [r EXCEPT !.guard = "pass"]
                     /\ profile_dirs' = profile_dirs \ {profile}
                     /\ CleanupReached(FALSE)
                     /\ RemovalCleanup(profile)

\* the file system: a profile folder is deleted outside the launcher
DirectoryRemoved ==
    /\ AtEventLoop
    /\ \E d \in profile_dirs : profile_dirs' = profile_dirs \ {d}
    /\ last' = Did("rmdir")
    /\ UNCHANGED <<allow_multi_instance, processes, launched_profiles, launch_order,
                   selected_profiles, profileList, owner, running, missingLabel,
                   ui_enabled, copy_thread>>

\* the handler returns to the event loop (app.exec()); what it decided is dropped
EventLoop ==
    /\ last # Idle
    /\ last' = Idle
    /\ UNCHANGED <<allow_multi_instance, processes, launched_profiles, launch_order,
                   selected_profiles, profileList, profile_dirs, owner, running,
                   missingLabel, ui_enabled, copy_thread>>

-----------------------------------------------------------------------------
Next ==
    \/ updateSelectedProfiles
    \/ launchGame
    \/ runWithConsole
    \/ runSpecificGame
    \/ launchMainProfile
    \/ runMissingInstances
    \/ runMissingInstancesWithLink
    \/ runParameter
    \/ checkProcesses
    \/ exitAllSessions
    \/ onMultiToggleChanged
    \/ scanForProfiles
    \/ createProfile
    \/ CopyProfileThreadRun
    \/ onProfileCopyDone
    \/ onProfileCopyFailed
    \/ onCopyThreadFinished
    \/ removeProfile
    \/ ProcessExit
    \/ DirectoryRemoved
    \/ EventLoop

Spec == Init /\ [][Next]_vars

\* process_timer fires every 2000 ms and every handler returns to the event loop
SpecLive == Spec /\ SF_vars(checkProcesses) /\ WF_vars(EventLoop)

\* the copy thread runs beside the event loop and ends (run has no loop of its
\* own), and the event loop delivers the signals queued for the window
SpecCopy ==
    /\ Spec
    /\ SF_vars(CopyProfileThreadRun)
    /\ SF_vars(onProfileCopyDone)
    /\ SF_vars(onProfileCopyFailed)
    /\ SF_vars(onCopyThreadFinished)
    /\ WF_vars(EventLoop)

-----------------------------------------------------------------------------
(* The recovery handlers on their own, from every arrangement of launched
   profiles, tracked handles and exited processes a session can have led to *)

\* the launcher after a poll tick (every tracked handle was alive, the label is
\* the tick's) and the exit of some of the tracked processes since; the
\* processes of the profiles no longer tracked are gone
InitRecover ==
    /\ allow_multi_instance \in BOOLEAN
    /\ selected_profiles = <<>>
    /\ profile_dirs = OtherProfiles
    /\ profileList = ScanList(profile_dirs)
    /\ ui_enabled = TRUE
    /\ copy_thread = "idle"
    /\ last = Idle
    /\ launch_order \in Arrangements(Profiles)
    /\ launched_profiles = Range(launch_order)
    /\ \E handles \in Arrangements(launched_profiles) :
         /\ owner = handles
         /\ processes = [p \in Range(handles) |->
                            CHOOSE pid \in 1..Len(handles) : handles[pid] = p]
    /\ running \in SUBSET (1..Len(owner))
    /\ missingLabel \in updateMissingInstancesLabel(allow_multi_instance,
                            launched_profiles, processes, <<>>)

NextRecover ==
    \/ runMissingInstances
    \/ runMissingInstancesWithLink
    \/ EventLoop

SpecRecover == InitRecover /\ [][NextRecover]_vars

-----------------------------------------------------------------------------
(* The guard on its own: every flag, requested_count and probe run *)

InitGuard ==
    /\ allow_multi_instance \in BOOLEAN
    /\ processes = EmptyMap
    /\ launched_profiles = {}
    /\ launch_order = <<>>
    /\ selected_profiles = <<>>
    /\ profile_dirs = {}
    /\ profileList = ScanList({})
    /\ owner = <<>>
    /\ running = {}
    /\ missingLabel = <<>>
    /\ ui_enabled = TRUE
    /\ copy_thread = "idle"
    /\ \E requested_count \in 0..MaxRequested, probes \in Probes :
         last = [Idle EXCEPT !.requested = requested_count, !.probes = probes]

GuardStep ==
    /\ last.op = "idle"
    /\ last' = [last EXCEPT
           !.op = "_guard_multi_instance",
           !.detected = system_sober_running(last.probes),
           !.tried = ProbesTried(last.probes),
           !.guard = IF guard_multi_instance(allow_multi_instance, last.requested,
                                             last.probes)
                     THEN "pass" ELSE "reject"]
    /\ UNCHANGED <<allow_multi_instance, processes, launched_profiles, launch_order,
                   selected_profiles, profileList, profile_dirs, owner, running,
                   missingLabel, ui_enabled, copy_thread>>

NextGuard == GuardStep

SpecGuard == InitGuard /\ [][NextGuard]_vars

-----------------------------------------------------------------------------
(* scanForProfiles on its own, names spelled out character by character:
   every listing os.scandir may return of up to MaxDirs of the names below *)

NameMain == <<"M", "a", "i", "n", " ", "P", "r", "o", "f", "i", "l", "e">>

NameProfile1 == <<"P", "r", "o", "f", "i", "l", "e", " ", "1">>

NameProfile2 == <<"P", "r", "o", "f", "i", "l", "e", " ", "2">>

NameProfile10 == <<"P", "r", "o", "f", "i", "l", "e", " ", "1", "0">>

NameLower3 == <<"p", "r", "o", "f", "i", "l", "e", " ", "3">>

\* a folder whose name is the one character U+00B2, SUPERSCRIPT TWO
NameSuperTwo == <<"U+00B2">>

ScanNames == {NameMain, NameProfile1, NameProfile2, NameProfile10, NameLower3,
              NameSuperTwo}

\* characters for which str.isdigit() is true although \d does not match them
\* and int() does not accept them
OtherDigitChars == {"U+00B2"}

\* the characters of the names above in code point order
CodePoints == <<" ", "0", "1", "2", "3", "4", "5", "6", "7", "8", "9",
                "M", "P", "a", "e", "f", "i", "l", "m", "n", "o", "p", "r", "U+00B2">>

CharCode(c) == CHOOSE i \in 1..Len(CodePoints) : CodePoints[i] = c

\* str.lower() on one character
LowerChar(c) == IF c = "M" THEN "m" ELSE IF c = "P" THEN "p" ELSE c

Lower(text) == [i \in 1..Len(text) |-> LowerChar(text[i])]

\* the listings os.scandir may produce: names are unique, the order is arbitrary
RECURSIVE Listings(_, _)
Listings(S, n) ==
    IF n = 0 THEN {<<>>}
    ELSE {<<>>} \cup UNION {{<<x>> \o t : t \in Listings(S \ {x}, n - 1)} : x \in S}

\* re.split(r'(\d+)', s): text, digits, text, ..., text
RECURSIVE re_split(_)
re_split(s) ==
    IF \E i \in 1..Len(s) : s[i] \in DigitChars
    THEN LET n == CHOOSE i \in 1..Len(s) :
                      s[i] \in DigitChars /\ \A k \in 1..(i - 1) : s[k] \notin DigitChars
             digits == DigitRun(s, n)
         IN  <<SubSeq(s, 1, n - 1), digits>>
                \o re_split(SubSeq(s, n + Len(digits), Len(s)))
    ELSE <<s>>

\* text.isdigit()
StrIsDigit(text) ==
    /\ text # <<>>
    /\ \A i \in 1..Len(text) : text[i] \in DigitChars \cup OtherDigitChars

\* int(text) raises ValueError unless every character is a decimal digit
IntRaises(text) == \E i \in 1..Len(text) : text[i] \notin DigitChars

RECURSIVE ToInt(_)
ToInt(text) ==
    IF text = <<>> THEN 0
    ELSE ToInt(SubSeq(text, 1, Len(text) - 1)) * 10
            + (CharCode(text[Len(text)]) - CharCode("0"))

\* natural_sort_key(s) raises when a piece passes isdigit() and int() rejects it
KeyRaises(s) ==
    \E i \in 1..Len(re_split(s)) :
        StrIsDigit(re_split(s)[i]) /\ IntRaises(re_split(s)[i])

\* [int(text) if text.isdigit() else text.lower() for text in re.split(...)]
natural_sort_key(s) ==
    LET pieces == re_split(s)
    IN  [i \in 1..Len(pieces) |->
            IF StrIsDigit(pieces[i])
            THEN [int |-> ToInt(pieces[i]), str |-> <<>>]
            ELSE [int |-> -1, str |-> Lower(pieces[i])]]

\* str < str, by code points
RECURSIVE StrLess(_, _)
StrLess(a, b) ==
    IF b = <<>> THEN FALSE
    ELSE IF a = <<>> THEN TRUE
    ELSE IF Head(a) # Head(b) THEN CharCode(Head(a)) < CharCode(Head(b))
    ELSE StrLess(Tail(a), Tail(b))

\* list < list; pieces at the same index are both texts or both digit runs
RECURSIVE KeyLess(_, _)
KeyLess(k1, k2) ==
    IF k2 = <<>> THEN FALSE
    ELSE IF k1 = <<>> THEN TRUE
    ELSE IF Head(k1) # Head(k2)
         THEN IF Head(k1).int # Head(k2).int THEN Head(k1).int < Head(k2).int
              ELSE StrLess(Head(k1).str, Head(k2).str)
    ELSE KeyLess(Tail(k1), Tail(k2))

\* list.sort(key=...) is stable: a name goes in front of the first name whose key
\* is greater
RECURSIVE SortedInsert(_, _)
SortedInsert(sorted, x) ==
    IF sorted = <<>> THEN <<x>>
    ELSE IF KeyLess(natural_sort_key(x), natural_sort_key(Head(sorted)))
    THEN <<x>> \o sorted
    ELSE <<Head(sorted)>> \o SortedInsert(Tail(sorted), x)

RECURSIVE list_sort(_)
list_sort(entries) ==
    IF entries = <<>> THEN <<>>
    ELSE SortedInsert(list_sort(SubSeq(entries, 1, Len(entries) - 1)),
                      entries[Len(entries)])

\* profiles.sort(key=natural_sort_key); remove "Main Profile"; insert(0, ...)
SortedProfiles(entries) ==
    <<NameMain>> \o SelectSeq(list_sort(entries), LAMBDA x : x # NameMain)

InitScan ==
    /\ allow_multi_instance \in BOOLEAN
    /\ processes = EmptyMap
    /\ launched_profiles = {}
    /\ launch_order = <<>>
    /\ selected_profiles = <<>>
    /\ profile_dirs = {}
    /\ profileList = <<>>
    /\ owner = <<>>
    /\ running = {}
    /\ missingLabel = <<>>
    /\ ui_enabled = TRUE
    /\ copy_thread = "idle"
    /\ \E entries \in Listings(ScanNames, MaxDirs) :
         last = [Idle EXCEPT !.entries = entries]

\* scanForProfiles: the list is cleared first; an exception from the sort leaves
\* it empty
ScanStep ==
    /\ last.op = "idle"
    /\ LET raises == \E i \in 1..Len(last.entries) : KeyRaises(last.entries[i])
       IN  /\ profileList' = IF raises THEN <<>> ELSE SortedProfiles(last.entries)
           /\ last' = [last EXCEPT !.op = "scanForProfiles", !.raised = raises]
    /\ UNCHANGED <<allow_multi_instance, processes, launched_profiles, launch_order,
                   selected_profiles, profile_dirs, owner, running, missingLabel,
                   ui_enabled, copy_thread>>

NextScan == ScanStep

SpecScan == InitScan /\ [][NextScan]_vars

-----------------------------------------------------------------------------
(* The command line of a launch on its own, spelled piece by piece, and what
   sh (Popen(..., shell=True)) makes of it: every launch path, every pair of
   profile names below *)

NameAB == <<"a", "b">>

\* a folder named a""b: the letters a and b with two double quotes in between
NameQuotedAB == <<"a", "\"", "\"", "b">>

EnvNames == {NameMain, NameProfile1, NameProfile2, NameAB, NameQuotedAB}

\* self.base_dir
BaseDir == <<"<base_dir>">>

LaunchPaths == {"launchGame", "runWithConsole", "runSpecificGame",
                "runMissingInstances", "runMissingInstancesWithLink",
                "launchMainProfile"}

\* terminal_command
TerminalCommands == {<<"konsole", " ", "-e">>, <<"x-terminal-emulator", " ", "-e">>,
                     <<"gnome-terminal", " ", "--">>}

NoTerminal == <<>>

\* os.path.join(self.base_dir, profile), for a directory name (no "/" in it)
os_path_join(base, name) == base \o <<"/">> \o name

\* "flatpak run org.vinegarhq.Sober"
SoberCommand == <<"flatpak", " ", "run", " ", "org.vinegarhq.Sober">>

\* f'env HOME="{profile_path}" flatpak run org.vinegarhq.Sober', the sentinel
\* without env, after the terminal command and before the link where there is one
CommandLine(path, terminal, profile) ==
    LET prefix == IF path = "runWithConsole" THEN terminal \o <<" ">> ELSE <<>>
        suffix == IF path \in {"runSpecificGame", "runMissingInstancesWithLink"}
                  THEN <<" ", "\"">> \o roblox_command(<<"1">>) \o <<"\"">>
                  ELSE <<>>
    IN  IF profile = NameMain
        THEN prefix \o SoberCommand \o suffix
        ELSE prefix \o <<"env", " ", "HOME=", "\"">>
                    \o os_path_join(BaseDir, profile)
                    \o <<"\"", " ">> \o SoberCommand \o suffix

\* sh splits the command into words: a double quote opens or closes a quoted
\* stretch and is dropped, a blank outside quotes ends the word
RECURSIVE ShWords(_, _, _, _)
ShWords(cmd, word, quoted, started) ==
    IF cmd = <<>> THEN (IF started THEN <<word>> ELSE <<>>)
    ELSE IF Head(cmd) = "\""
    THEN ShWords(Tail(cmd), word, ~quoted, TRUE)
    ELSE IF Head(cmd) = " " /\ ~quoted
    THEN (IF started THEN <<word>> ELSE <<>>) \o ShWords(Tail(cmd), <<>>, FALSE, FALSE)
    ELSE ShWords(Tail(cmd), Append(word, Head(cmd)), quoted, TRUE)

\* the started application keeps the launcher's own HOME
InheritedHome == <<"$HOME">>

\* env NAME=VALUE command: the HOME the application is started with
EnvHome(words) ==
    IF \E i \in 1..(Len(words) - 1) :
          words[i] = <<"env">> /\ words[i + 1] # <<>> /\ Head(words[i + 1]) = "HOME="
    THEN LET i == CHOOSE k \in 1..(Len(words) - 1) :
                     words[k] = <<"env">> /\ words[k + 1] # <<>>
                        /\ Head(words[k + 1]) = "HOME="
         IN  Tail(words[i + 1])
    ELSE InheritedHome

\* subprocess.Popen(command, shell=True)
PopenHome(command) == EnvHome(ShWords(command, <<>>, FALSE, FALSE))

InitEnv ==
    /\ allow_multi_instance \in BOOLEAN
    /\ processes = EmptyMap
    /\ launched_profiles = {}
    /\ launch_order = <<>>
    /\ selected_profiles = <<>>
    /\ profile_dirs = {}
    /\ profileList = <<>>
    /\ owner = <<>>
    /\ running = {}
    /\ missingLabel = <<>>
    /\ ui_enabled = TRUE
    /\ copy_thread = "idle"
    /\ \E path \in LaunchPaths :
         \E entries \in IF path = "launchMainProfile" THEN {<<NameMain>>}
                        ELSE {<<p, q>> : p, q \in EnvNames} :
            /\ path # "launchMainProfile" => entries[1] # entries[2]
            /\ last = [Idle EXCEPT !.arg = path, !.entries = entries]

\* the launch loop of the path, for the profiles of the entries in turn
EnvStep ==
    /\ last.op = "idle"
    /\ \E terminal \in IF last.arg = "runWithConsole" THEN TerminalCommands
                       ELSE {NoTerminal} :
         LET commands == [i \in 1..Len(last.entries) |->
                             CommandLine(last.arg, terminal, last.entries[i])]
         IN  last' = [last EXCEPT !.op = last.arg, !.commands = commands,
                         !.homes = [i \in 1..Len(commands) |-> PopenHome(commands[i])]]
    /\ UNCHANGED <<allow_multi_instance, processes, launched_profiles, launch_order,
                   selected_profiles, profileList, profile_dirs, owner, running,
                   missingLabel, ui_enabled, copy_thread>>

NextEnv == EnvStep

SpecEnv == InitEnv /\ [][NextEnv]_vars

-----------------------------------------------------------------------------
(* Properties.  last holds the handler that has just run, what it decided and
   the maps as it found them (last.before); the maps themselves are its result. *)

LaunchOps == {"launchGame", "runWithConsole", "runSpecificGame"}

LaunchDecisions == LaunchOps \cup {"launchMainProfile"}

SpawningOps == LaunchDecisions \cup {"runMissingInstances", "runMissingInstancesWithLink"}

SpawnsFor(own, p) == Cardinality({i \in 1..Len(own) : own[i] = p})

NewPids == (Len(last.before.owner) + 1)..Len(owner)

MapsUnchanged ==
    /\ owner = last.before.owner
    /\ processes = last.before.processes
    /\ launched_profiles = last.before.launched_profiles

SameEntry(p) ==
    /\ (p \in DOMAIN processes) <=> (p \in DOMAIN last.before.processes)
    /\ p \in DOMAIN processes => processes[p] = last.before.processes[p]
    /\ (p \in launched_profiles) <=> (p \in last.before.launched_profiles)

WasAlive(p) ==
    /\ p \in DOMAIN last.before.processes
    /\ last.before.processes[p] \in last.before.running

\* C1: with allow_multi_instance false, self.processes holds at most one profile
\* after every launch decision (launchGame, runWithConsole, runSpecificGame,
\* launchMainProfile), accepted or rejected.
C1_AtMostOneLiveAfterLaunch ==
    (last.op \in LaunchDecisions /\ ~allow_multi_instance)
        => Cardinality(DOMAIN processes) <= 1

\* C2: a launch (launchGame, runWithConsole, runSpecificGame) made while p has a
\* handle whose process is still running spawns nothing for p and keeps p's handle:
\* launching p twice in succession leaves one process and one live handle for p.
C2_LaunchIdempotent ==
    \A p \in Profiles :
        (last.op \in LaunchOps /\ WasAlive(p))
          => /\ p \in DOMAIN processes
             /\ processes[p] = last.before.processes[p]
             /\ processes[p] \in running
             /\ SpawnsFor(owner, p) = SpawnsFor(last.before.owner, p)

\* a launch has just found its target alive and skipped it, one process ever
\* having been started for that profile
C2_Witness ==
    /\ last.op \in LaunchOps
    /\ \E p \in last.skipped :
         /\ SpawnsFor(owner, p) = 1
         /\ p \in DOMAIN processes /\ processes[p] \in running

\* C3: a poll tick (checkProcesses) that finds p's process exited removes p from
\* self.processes, and p is then missing iff p is in launched_profiles; the
\* missing set is launched_profiles minus the keys of self.processes, and it is
\* what the tick displays when multi instancing is on.
C3_PollRemovesExited ==
    last.op = "checkProcesses" =>
        /\ \A p \in DOMAIN last.before.processes :
             last.before.processes[p] \notin last.before.running
               => /\ p \notin DOMAIN processes
                  /\ (p \in Missing(launched_profiles, processes))
                        <=> (p \in launched_profiles)
        /\ Missing(launched_profiles, processes) = launched_profiles \ DOMAIN processes
        /\ allow_multi_instance
              => Range(missingLabel) = launched_profiles \ DOMAIN processes

\* a tick has just reaped a launched profile, which is now missing
C3_Witness ==
    /\ last.op = "checkProcesses"
    /\ \E p \in launched_profiles :
         /\ p \in DOMAIN last.before.processes
         /\ p \notin DOMAIN processes
         /\ p \in Range(missingLabel)

\* C4: after a confirmed exitAllSessions, self.processes and
\* self.launched_profiles are empty and nothing is missing.
C4_ExitAllEmptiesBoth ==
    (last.op = "exitAllSessions" /\ last.arg # "declined")
        => /\ DOMAIN processes = {}
           /\ launched_profiles = {}
           /\ Missing(launched_profiles, processes) = {}

\* C5 as claimed: with allow_multi_instance false, a launch request for two or
\* more selected profiles spawns nothing and changes neither map.
C5_TwoSelectedRejected ==
    (last.op \in LaunchOps /\ ~allow_multi_instance /\ Len(selected_profiles) >= 2)
        => MapsUnchanged

\* C5 as amended: with allow_multi_instance false, a launch request for two or
\* more selected profiles is rejected when the probe detects an instance, and is
\* otherwise carried out for the first selected profile alone: at most one process
\* is spawned, for that profile, and no other profile's entry changes.
C5_TwoSelectedLaunchFirstOnly ==
    (last.op \in LaunchOps /\ ~allow_multi_instance /\ Len(selected_profiles) >= 2)
        => /\ last.detected => (last.guard = "reject" /\ MapsUnchanged)
           /\ Len(owner) <= Len(last.before.owner) + 1
           /\ \A pid \in NewPids : owner[pid] = selected_profiles[1]
           /\ \A p \in Profiles \ {selected_profiles[1]} : SameEntry(p)

\* two profiles are selected, the flag is off, and the launch spawned one process
C5_Witness ==
    /\ last.op \in LaunchOps
    /\ ~allow_multi_instance
    /\ Len(selected_profiles) >= 2
    /\ last.spawned = {selected_profiles[1]}
    /\ Len(owner) = Len(last.before.owner) + 1

\* C6: _guard_multi_instance(requested_count) returns True exactly when
\* allow_multi_instance is set, or requested_count <= 1 and no probe reports an
\* instance.
C6_GuardDecision ==
    last.op = "_guard_multi_instance"
        => ((last.guard = "pass")
              <=> (allow_multi_instance
                     \/ (last.requested <= 1
                           /\ ~\E i \in 1..3 : last.probes[i] = "match")))

\* flag off, one profile requested, an instance detected only by the third probe
\* after two failing ones: rejected
C6_Witness ==
    /\ last.op = "_guard_multi_instance"
    /\ ~allow_multi_instance
    /\ last.requested = 1
    /\ last.probes[1] = "error" /\ last.probes[2] = "error" /\ last.probes[3] = "match"
    /\ last.guard = "reject"

\* C7: with allow_multi_instance false, at most one process started by the
\* launcher is alive, tracked in self.processes or not.
C7_AtMostOneAlive ==
    ~allow_multi_instance => Cardinality(running) <= 1

\* C8: with allow_multi_instance false, a launch request made while another
\* profile has a running tracked process, or while the probe detects an instance,
\* is rejected and changes neither map.
C8_ConflictRejected ==
    \A target \in Profiles :
        (/\ ~allow_multi_instance
         /\ \/ last.op \in LaunchOps /\ selected_profiles # <<>>
                  /\ target = selected_profiles[1]
            \/ last.op = "launchMainProfile" /\ target = MainProfile
         /\ \/ last.detected
            \/ \E q \in Profiles \ {target} : WasAlive(q))
          => (last.guard = "reject" /\ MapsUnchanged)

\* C9: launched_profiles loses entries only through removeProfile(p), which takes
\* out p alone, and a confirmed exitAllSessions, which empties it; every Popen made
\* for a profile puts that profile in.
C9_LaunchedShrinksOnlyOnRemoval ==
    last.op # "idle" =>
        /\ ~(last.before.launched_profiles \subseteq launched_profiles)
             => \/ /\ last.op = "removeProfile"
                   /\ last.before.launched_profiles \ launched_profiles = {last.arg}
                \/ /\ last.op = "exitAllSessions"
                   /\ launched_profiles = {}
        /\ \A pid \in NewPids : owner[pid] \in Profiles => owner[pid] \in launched_profiles

\* a profile has just been removed while another one stays launched
C9_Witness ==
    /\ last.op = "removeProfile"
    /\ last.arg \in last.before.launched_profiles
    /\ last.arg \notin launched_profiles
    /\ launched_profiles # {}

\* C10: every profile a launch spawns or finds alive is in self.processes with a
\* running process and is not missing right after the launch; a profile becomes
\* missing (launched, no handle) only in a poll tick that found its process exited.
C10_MissingOnlyThroughPoll ==
    last.op # "idle" =>
        /\ \A p \in Profiles :
             (/\ ~(p \in last.before.launched_profiles
                     /\ p \notin DOMAIN last.before.processes)
              /\ p \in launched_profiles /\ p \notin DOMAIN processes)
               => /\ last.op = "checkProcesses"
                  /\ p \in DOMAIN last.before.processes
                  /\ last.before.processes[p] \notin last.before.running
        /\ last.op \in SpawningOps
             => /\ \A p \in (last.spawned \cup last.skipped) :
                     /\ p \in DOMAIN processes
                     /\ processes[p] \in running
                /\ last.spawned \subseteq launched_profiles

\* a profile that had gone missing has just been launched a second time
C10_Witness ==
    /\ last.op \in LaunchOps
    /\ \E p \in last.spawned :
         /\ p \in last.before.launched_profiles
         /\ p \notin DOMAIN last.before.processes
         /\ p \in DOMAIN processes /\ processes[p] \in running

-----------------------------------------------------------------------------
(* Order of the missing sequence, spawn failure, repeated launches, poll frame *)

Precedes(seq, p, q) ==
    \E i, j \in 1..Len(seq) : i < j /\ seq[i] = p /\ seq[j] = q

InInsertionOrder(seq) ==
    \A i, j \in 1..Len(seq) : i < j => Precedes(launch_order, seq[i], seq[j])

NoDuplicates(seq) == \A i, j \in 1..Len(seq) : i # j => seq[i] # seq[j]

RelaunchOps == {"runMissingInstances", "runMissingInstancesWithLink"}

\* C11: the missing sequence lists the profiles in the order in which they were
\* first put into launched_profiles, in the label a poll tick writes
\* (updateMissingInstancesLabel) and in the sequence runMissingInstances and
\* runMissingInstancesWithLink iterate over.
C11_MissingInInsertionOrder ==
    /\ (last.op = "checkProcesses" /\ allow_multi_instance)
          => InInsertionOrder(missingLabel)
    /\ last.op \in RelaunchOps => InInsertionOrder(last.missing)

\* C12: when the Popen for profile p raises in a launch or relaunch, p's entries in
\* self.processes and launched_profiles are as before the call (p is added to
\* neither), and every other profile's entries are as before unless the same call
\* had already spawned it, in which case it is in both.
C12_SpawnFailureConsistent ==
    (last.op \in SpawningOps /\ last.raised) =>
        /\ last.arg \in Profiles
        /\ last.arg \notin last.spawned
        /\ SameEntry(last.arg)
        /\ \A q \in Profiles \ {last.arg} :
             \/ SameEntry(q)
             \/ /\ q \in last.spawned
                /\ q \in DOMAIN processes /\ processes[q] \in NewPids
                /\ q \in launched_profiles
        /\ Len(owner) = Len(last.before.owner) + Cardinality(last.spawned)

\* a launch for two profiles spawned the first and failed on the second, which
\* is in neither map
C12_Witness ==
    /\ last.op \in LaunchOps
    /\ last.raised
    /\ last.spawned # {}
    /\ last.arg \notin launched_profiles
    /\ last.arg \notin DOMAIN processes

\* C13: launched_profiles holds a profile once however often it is launched: a
\* launch leaves launched_profiles equal to what it was plus the profiles spawned,
\* the record of insertions has no profile twice, and no missing sequence lists a
\* profile twice.
C13_RecordLaunchIdempotent ==
    /\ NoDuplicates(launch_order)
    /\ Range(launch_order) = launched_profiles
    /\ NoDuplicates(missingLabel)
    /\ last.op \in SpawningOps =>
         /\ launched_profiles = last.before.launched_profiles \cup last.spawned
         /\ NoDuplicates(last.missing)

\* a profile already in launched_profiles has just been spawned a second time
C13_Witness ==
    /\ last.op \in SpawningOps
    /\ \E p \in last.spawned :
         /\ p \in last.before.launched_profiles
         /\ SpawnsFor(owner, p) = 2
    /\ launched_profiles = last.before.launched_profiles

\* C14: a poll tick removes from self.processes exactly the handles whose process
\* has exited; a handle whose process is running stays, the same handle; and
\* launched_profiles is unchanged.
C14_PollRemovesExactlyExited ==
    last.op = "checkProcesses" =>
        /\ \A p \in DOMAIN last.before.processes :
             IF last.before.processes[p] \in last.before.running
             THEN p \in DOMAIN processes /\ processes[p] = last.before.processes[p]
             ELSE p \notin DOMAIN processes
        /\ DOMAIN processes \subseteq DOMAIN last.before.processes
        /\ launched_profiles = last.before.launched_profiles
        /\ owner = last.before.owner
        /\ running = last.before.running

\* a tick has just removed one exited handle and kept one running handle
C14_Witness ==
    /\ last.op = "checkProcesses"
    /\ \E p, q \in DOMAIN last.before.processes :
         /\ p \notin DOMAIN processes
         /\ q \in DOMAIN processes /\ processes[q] \in running

\* C15: with the timer firing again and again, a handle in self.processes whose
\* process has exited is eventually taken out of self.processes; right after the
\* exit the handle is still there (the profile still shows as live), and right
\* after a tick no exited handle is left and every profile the tick removed that is
\* still in launched_profiles is missing, and displayed as such when multi
\* instancing is on.
C15_ExitEventuallyObserved ==
    /\ \A p \in Profiles, pid \in 1..MaxSpawns :
          (p \in DOMAIN processes /\ processes[p] = pid /\ pid \notin running)
             ~> ~(p \in DOMAIN processes /\ processes[p] = pid)
    /\ [](last.op = "exit" => processes = last.before.processes)
    /\ [](last.op = "checkProcesses" =>
            /\ \A p \in DOMAIN processes : processes[p] \in running
            /\ \A p \in (DOMAIN last.before.processes) \ DOMAIN processes :
                 p \in launched_profiles
                   => /\ p \in Missing(launched_profiles, processes)
                      /\ allow_multi_instance => p \in Range(missingLabel))

\* a tracked process has just exited and no tick has run since
C15_Witness ==
    /\ last.op = "exit"
    /\ \E p \in DOMAIN processes :
         /\ processes[p] \notin running
         /\ p \in launched_profiles

-----------------------------------------------------------------------------
(* Catalog listing *)

NaturalOrderBefore(a, b) == KeyLess(natural_sort_key(a), natural_sort_key(b))

\* C16: for every listing of directory names, scanForProfiles yields a list with
\* "Main Profile" at index 0 and nowhere else, no name twice, every directory
\* name in it, and the names after index 0 in natural sort order (digit runs by
\* value, other runs without regard to case).
C16_CatalogSorted ==
    last.op = "scanForProfiles" =>
        /\ ~last.raised
        /\ Len(profileList) >= 1
        /\ profileList[1] = NameMain
        /\ \A i \in 2..Len(profileList) : profileList[i] # NameMain
        /\ NoDuplicates(profileList)
        /\ Range(profileList) = Range(last.entries) \cup {NameMain}
        /\ \A i, j \in 2..Len(profileList) :
             i < j => ~NaturalOrderBefore(profileList[j], profileList[i])

-----------------------------------------------------------------------------
(* Removal *)

\* C17: removeProfile("Main Profile") is refused: it deletes no folder and leaves
\* self.processes, launched_profiles, the processes themselves and the list as
\* they were.
C17_MainProfileNotDeletable ==
    (last.op = "removeProfile" /\ last.arg = MainProfile) =>
        /\ last.guard = "reject"
        /\ MapsUnchanged
        /\ running = last.before.running
        /\ profile_dirs = last.before.profile_dirs
        /\ profileList = last.before.profileList

\* removal of Main Profile has just been asked for while its process is running
C17_Witness ==
    /\ last.op = "removeProfile"
    /\ last.arg = MainProfile
    /\ WasAlive(MainProfile)
    /\ MainProfile \in launched_profiles

\* C18: after removeProfile(p) for a profile p other than Main Profile that is in
\* launched_profiles, unless the user declined or the deletion raised, p is in
\* neither self.processes nor launched_profiles, also when p's folder is gone.
C18_RemovalClearsBookkeeping ==
    (/\ last.op = "removeProfile"
     /\ last.arg # MainProfile
     /\ last.arg \in last.before.launched_profiles
     /\ last.guard # "declined"
     /\ ~last.raised)
      => /\ last.arg \notin DOMAIN processes
         /\ last.arg \notin launched_profiles

-----------------------------------------------------------------------------
(* Deep links and probes *)

LinkOps == {"runSpecificGame", "runMissingInstancesWithLink"}

GamesMatchAt(url, k) ==
    /\ k + Len(GamesPrefix) <= Len(url)
    /\ \A n \in 1..Len(GamesPrefix) : url[k + n - 1] = GamesPrefix[n]
    /\ url[k + Len(GamesPrefix)] \in DigitChars

\* digits is the digit run that follows the leftmost "games/" followed by a digit
IsPlaceIdOf(digits, url) ==
    \E i \in 1..Len(url) :
        LET from == i + Len(GamesPrefix)
            to == from + Len(digits) - 1
        IN  /\ GamesMatchAt(url, i)
            /\ \A k \in 1..(i - 1) : ~GamesMatchAt(url, k)
            /\ Len(digits) >= 1
            /\ to <= Len(url)
            /\ \A n \in 1..Len(digits) : digits[n] = url[from + n - 1]
                                           /\ digits[n] \in DigitChars
            /\ to < Len(url) => url[to + 1] \notin DigitChars

\* C19: runSpecificGame and runMissingInstancesWithLink launch with the argument
\* roblox://experience?placeId=<digits>, <digits> being the first digit run
\* matched by games/(\d+) in the link entered; a link with no such match is
\* rejected with no process spawned and both maps unchanged.
C19_DeepLinkValidation ==
    last.op \in LinkOps =>
        /\ last.spawned # {} => last.link # <<>>
        /\ last.link # <<>> =>
             /\ last.link[1] = "roblox://experience?placeId="
             /\ IsPlaceIdOf(Tail(last.link), last.url)
        /\ (last.url # <<>> /\ ~\E k \in 1..Len(last.url) : GamesMatchAt(last.url, k))
             => /\ last.arg = "invalid link"
                /\ last.link = <<>>
                /\ last.spawned = {}
                /\ MapsUnchanged
        /\ last.url = UrlGame => last.link = roblox_command(<<"1", "2">>)
        /\ last.url = UrlNoGame => last.arg = "invalid link"

\* a link with two games/<digits> parts has just been launched with the first
C19_Witness ==
    /\ last.op \in LinkOps
    /\ last.url = UrlTwoGames
    /\ last.link = roblox_command(<<"7">>)
    /\ last.spawned # {}

\* C20: system_sober_running asks its three probes in order and stops at the
\* first that reports an instance; it answers True exactly when one does, False
\* when every probe fails or finds nothing; no error of a probe reaches the
\* caller, so a failing probe never rejects a launch.
C20_ProbeFailureTolerated ==
    last.op = "_guard_multi_instance" =>
        LET hits == {i \in 1..3 : last.probes[i] = "match"}
        IN  /\ last.detected <=> hits # {}
            /\ last.tried = IF hits = {} THEN 3
                            ELSE CHOOSE i \in hits : \A j \in hits : i <= j
            /\ ~last.raised
            /\ (hits = {} /\ last.requested <= 1) => last.guard = "pass"

\* every probe failed, the flag is off, one profile requested: accepted
C20_Witness ==
    /\ last.op = "_guard_multi_instance"
    /\ ~allow_multi_instance
    /\ last.requested = 1
    /\ \A i \in 1..3 : last.probes[i] = "error"
    /\ ~last.detected
    /\ last.guard = "pass"

-----------------------------------------------------------------------------
(* Profile isolation *)

\* C21: on every launch path a profile other than Main Profile is started with
\* HOME = <base_dir>/<profile> and Main Profile with the launcher's own HOME; two
\* different profiles other than Main Profile never get the same HOME.
C21_HomeIsolation ==
    last.op \in LaunchPaths =>
        /\ \A i \in 1..Len(last.entries) :
             last.homes[i] = IF last.entries[i] = NameMain THEN InheritedHome
                             ELSE os_path_join(BaseDir, last.entries[i])
        /\ \A i, j \in 1..Len(last.entries) :
             (/\ last.entries[i] # last.entries[j]
              /\ last.entries[i] # NameMain
              /\ last.entries[j] # NameMain)
               => last.homes[i] # last.homes[j]

-----------------------------------------------------------------------------
(* Background copy *)

\* C22: from createProfile starting the copy thread until the thread has
\* finished and its signals are handled, the window is disabled, and createProfile
\* only ever runs while no copy thread exists: two copies never overlap.
C22_OneCopyAtATime ==
    /\ copy_thread # "idle" => ~ui_enabled
    /\ last.op = "createProfile" => last.before.copy_thread = "idle"

\* createProfile has just started the copy thread for a new profile
C22_Witness ==
    /\ last.op = "createProfile"
    /\ last.arg \in OtherProfiles
    /\ copy_thread = "running"
    /\ ~ui_enabled

\* C23: the copy thread changes neither self.processes nor launched_profiles nor
\* the list; the refresh the copy leads to is done by _onProfileCopyDone, after
\* done was emitted and not by createProfile; the poll tick can run while the
\* copy is running.
C23_MapsOnControlThread ==
    /\ last.op = "CopyProfileThread.run" =>
          /\ MapsUnchanged
          /\ running = last.before.running
          /\ profileList = last.before.profileList
    /\ last.op = "_onProfileCopyDone" =>
          /\ last.before.copy_thread = "done"
          /\ MapsUnchanged
          /\ running = last.before.running
    /\ (last.op = "createProfile" /\ copy_thread = "running") =>
          profileList = last.before.profileList
    /\ (copy_thread = "running" /\ AtEventLoop) => ENABLED checkProcesses

\* a poll tick ran while the copy was running and took an exited handle away
C23_Witness ==
    /\ last.op = "checkProcesses"
    /\ last.before.copy_thread = "running"
    /\ copy_thread = "running"
    /\ processes # last.before.processes

\* C24: a started copy leads to the window being enabled again with the thread
\* gone; the thread emits done when the copy succeeded and failed when it raised,
\* never one after the other; each signal runs its own slot; the slot of failed
\* leaves the folder and the list as they are.
C24_CopyNotifiesOnce ==
    /\ [](last.op = "CopyProfileThread.run" =>
            copy_thread = IF last.raised THEN "failed" ELSE "done")
    /\ [](last.op = "_onProfileCopyDone" => last.before.copy_thread = "done")
    /\ [](last.op = "_onProfileCopyFailed" =>
            /\ last.before.copy_thread = "failed"
            /\ profileList = last.before.profileList
            /\ profile_dirs = last.before.profile_dirs
            /\ MapsUnchanged)
    /\ [](last.op = "finished" => ui_enabled /\ copy_thread = "idle")
    /\ [][/\ copy_thread = "done" => copy_thread' \in {"done", "finished"}
          /\ copy_thread = "failed" => copy_thread' \in {"failed", "finished"}
          /\ copy_thread = "finished" => copy_thread' \in {"finished", "idle"}]_vars
    /\ (copy_thread = "running") ~> (copy_thread = "idle" /\ ui_enabled)

\* the slot of failed has run: the window is still disabled, the new folder is
\* on disk and not in the list
C24_Witness ==
    /\ last.op = "_onProfileCopyFailed"
    /\ copy_thread = "finished"
    /\ ~ui_enabled
    /\ \E p \in profile_dirs : p \notin Range(profileList)

-----------------------------------------------------------------------------
(* Launch requests and the flag *)

\* C25: launchMainProfile, whatever allow_multi_instance is: when Main Profile
\* has a tracked handle that is alive and the guard lets the call pass, no
\* process is started and the handle stays the one it was.
C25_MainLaunchIdempotent ==
    (/\ last.op = "launchMainProfile"
     /\ last.guard = "pass"
     /\ WasAlive(MainProfile))
      => /\ owner = last.before.owner
         /\ MainProfile \in DOMAIN processes
         /\ processes[MainProfile] = last.before.processes[MainProfile]

\* C26: with allow_multi_instance false, launchGame, runWithConsole and
\* runSpecificGame start at most one process, for the first selected profile;
\* every other profile keeps its entry in self.processes and its membership of
\* launched_profiles as they were.
C26_SingleLaunchWhenOff ==
    (/\ last.op \in LaunchOps
     /\ ~allow_multi_instance
     /\ selected_profiles # <<>>)
      => /\ Len(owner) <= Len(last.before.owner) + 1
         /\ \A pid \in NewPids : owner[pid] = selected_profiles[1]
         /\ \A p \in Profiles \ {selected_profiles[1]} : SameEntry(p)

\* with the flag off and two profiles selected the first was started and the
\* second is neither tracked nor launched
C26_Witness ==
    /\ last.op \in LaunchOps
    /\ ~allow_multi_instance
    /\ Len(selected_profiles) >= 2
    /\ NewPids # {}
    /\ selected_profiles[2] \notin launched_profiles
    /\ selected_profiles[2] \notin DOMAIN processes

\* C27: with allow_multi_instance true, runMissingInstances, and
\* runMissingInstancesWithLink once a valid link is given, start one process for
\* each profile of launched_profiles that has no entry in self.processes and for
\* no other profile; when no Popen raises, no profile is missing afterwards and
\* launched_profiles is what it was.  Without a valid link nothing is started.
C27_RecoveryRelaunchesMissing ==
    (last.op \in RelaunchOps /\ last.before.allow_multi_instance) =>
        LET missing == last.before.launched_profiles
                          \ DOMAIN last.before.processes
        IN  /\ \A pid \in NewPids : owner[pid] \in missing
            /\ \A pid, other \in NewPids : owner[pid] = owner[other] => pid = other
            /\ \A p \in DOMAIN last.before.processes : SameEntry(p)
            /\ launched_profiles = last.before.launched_profiles
            /\ last.arg \in {"no link", "invalid link"} => MapsUnchanged
            /\ (~last.raised /\ last.arg \notin {"no link", "invalid link"}) =>
                  /\ {owner[pid] : pid \in NewPids} = missing
                  /\ launched_profiles \ DOMAIN processes = {}

\* two profiles were missing and both have been started again, while a third
\* handle, if any, was left alone
C27_Witness ==
    /\ last.op \in RelaunchOps
    /\ allow_multi_instance
    /\ ~last.raised
    /\ Cardinality(last.before.launched_profiles \ DOMAIN last.before.processes) >= 2
    /\ Cardinality(NewPids) >= 2

\* C28: with allow_multi_instance false, runMissingInstances and
\* runMissingInstancesWithLink start nothing and leave self.processes,
\* launched_profiles and the processes as they were.
C28_RecoveryDisabledWhenOff ==
    (last.op \in RelaunchOps /\ ~last.before.allow_multi_instance) =>
        /\ MapsUnchanged
        /\ running = last.before.running
        /\ last.spawned = {}

\* recovery was asked for with the flag off while a launched profile was missing
C28_Witness ==
    /\ last.op \in RelaunchOps
    /\ ~allow_multi_instance
    /\ last.before.launched_profiles \ DOMAIN last.before.processes # {}

\* C29: onMultiToggleChanged flips the flag and nothing else of the supervision
\* state: no process is started or ended and self.processes and launched_profiles
\* stay as they were, so what was launched with the flag on is still alive and
\* tracked once it is off.
C29_ToggleOnlyFlips ==
    last.op = "onMultiToggleChanged" =>
        /\ allow_multi_instance # last.before.allow_multi_instance
        /\ MapsUnchanged
        /\ running = last.before.running
        /\ profileList = last.before.profileList
        /\ profile_dirs = last.before.profile_dirs

\* the flag has just been switched off with two tracked profiles alive
C29_Witness ==
    /\ last.op = "onMultiToggleChanged"
    /\ ~allow_multi_instance
    /\ Cardinality({p \in launched_profiles :
                      HandleAlive(processes, running, p)}) >= 2

\* C30: when removeProfile(p) is declined or shutil.rmtree raises, p's handle is
\* neither terminated nor taken out of self.processes and p stays in
\* launched_profiles.
C30_FailedRemovalKeepsBookkeeping ==
    (last.op = "removeProfile" /\ (last.guard = "declined" \/ last.raised)) =>
        /\ MapsUnchanged
        /\ running = last.before.running

\* the deletion of a running, launched profile's folder has just raised
C30_Witness ==
    /\ last.op = "removeProfile"
    /\ last.raised
    /\ WasAlive(last.arg)
    /\ last.arg \in last.before.launched_profiles

-----------------------------------------------------------------------------
(* Catalog refresh *)

\* C31: scanForProfiles changes neither self.processes nor launched_profiles nor
\* any process, whether it runs from the refresh button, from createProfile or
\* from _onProfileCopyDone, also for a tracked or launched profile whose folder
\* is gone; run from removeProfile, it leaves every profile other than the
\* removed one as it was.
C31_ScanKeepsSupervisionState ==
    /\ last.op \in {"scanForProfiles", "_onProfileCopyDone"} =>
          /\ MapsUnchanged
          /\ running = last.before.running
          /\ profileList = ScanList(profile_dirs)
    /\ last.op = "createProfile" =>
          /\ MapsUnchanged
          /\ running = last.before.running
    /\ last.op = "removeProfile" =>
          /\ \A p \in Profiles \ {last.arg} : SameEntry(p)
          /\ owner = last.before.owner
          /\ \A pid \in last.before.running \ running :
               /\ last.arg \in DOMAIN last.before.processes
               /\ pid = last.before.processes[last.arg]

\* the list has just been refreshed while a launched profile with a live handle
\* has no folder any more and is not in the list
C31_Witness ==
    /\ last.op = "scanForProfiles"
    /\ \E p \in launched_profiles :
         /\ HandleAlive(processes, running, p)
         /\ p # MainProfile
         /\ p \notin profile_dirs
         /\ p \notin Range(profileList)

====
